---- MODULE Spec2Model ----
(***************************************************************************)
(* Latency instrumentation of app/middleware.py: the timing middleware     *)
(* add_process_time_header, the module-level deque rolling_latency and the *)
(* percentile function calculate_percentile.                               *)
(*                                                                         *)
(* The middleware is a coroutine on one asyncio event loop: the code       *)
(* between two awaits runs without interruption.  Its only await is        *)
(* `await call_next(request)` (line 9), so a request has three positions:  *)
(* not yet started, suspended in call_next, and finished (call_next        *)
(* returned and lines 10-13 ran, or call_next raised and the exception     *)
(* left the coroutine at line 9).                                          *)
(***************************************************************************)
EXTENDS Integers, Sequences, FiniteSets, TLC

VARIABLES
    rolling_latency,   \* the deque of samples (middleware.py:5)
    pc,                \* position of each request's middleware coroutine
    start_time,        \* local start_time of each suspended coroutine (line 8)
    process_time,      \* local process_time of each coroutine (line 10)
    x_process_time,    \* response.headers["X-Process-Time"] (line 12)
    clock,             \* time.perf_counter(), in ticks
    returned,          \* last value returned by calculate_percentile
    owners,            \* history: the request behind each sample of the deque
    doneOrder,         \* history: requests in the order call_next finished
    overtaken          \* history: pairs <<a, b>>: a started after b and
                       \*          finished while b was still suspended

vars == <<rolling_latency, pc, start_time, process_time, x_process_time,
          clock, returned, owners, doneOrder, overtaken>>

----------------------------------------------------------------------------
(* Bounds of the model *)

\* rolling_latency = deque(maxlen=1000); the capacity is scaled down so that
\* the window fills and evicts within the explored runs.
maxlen == 2

\* number of requests that pass through the middleware
NumRequests == 3

\* perf_counter ticks that may elapse
MaxClock == 1

\* longest sample sequence handed to calculate_percentile in SpecPct
MaxCount == 29

\* largest sample value in the exhaustively enumerated short sequences
MaxSample == 2

\* longest exhaustively enumerated sequence
MaxShort == 3

\* how far outside [0,100] the queried ranks go
RankSlack == 4

Requests == 1..NumRequests

----------------------------------------------------------------------------
(* Values *)

None == [kind |-> "None", v |-> 0]
Some(x) == [kind |-> "value", v |-> x]
IndexError == [kind |-> "IndexError", v |-> 0]
NoCall == [rank |-> 0, result |-> [kind |-> "NoCall", v |-> 0]]

Min(a, b) == IF a < b THEN a ELSE b
Max(a, b) == IF a > b THEN a ELSE b

----------------------------------------------------------------------------
(* collections.deque(maxlen=...) *)

\* variants of deque.append used to test the properties below
DequeAppendDropNewest(d, x) ==
    IF Len(d) >= maxlen THEN d ELSE Append(d, x)

DequeAppendUnbounded(d, x) == Append(d, x)

DequeAppendTwice(d, x) ==
    LET s == Append(Append(d, x), x)
    IN  IF Len(s) > maxlen THEN SubSeq(s, Len(s) - maxlen + 1, Len(s)) ELSE s

DequeAppendLeft(d, x) ==
    LET s == <<x>> \o d
    IN  IF Len(s) > maxlen THEN SubSeq(s, 1, maxlen) ELSE s

\* deque.append on a bounded deque: append on the right and, when the length
\* exceeds maxlen, discard one item from the left.
DequeAppend(d, x) ==
    LET s == Append(d, x)
    IN  IF Len(s) > maxlen THEN Tail(s) ELSE s

----------------------------------------------------------------------------
(* sorted() *)

RECURSIVE InsertSorted(_, _)
InsertSorted(s, x) ==
    IF s = << >> THEN <<x>>
    ELSE IF x < Head(s) THEN <<x>> \o s
    ELSE <<Head(s)>> \o InsertSorted(Tail(s), x)

RECURSIVE sorted(_)
sorted(s) ==
    IF s = << >> THEN << >>
    ELSE InsertSorted(sorted(Tail(s)), Head(s))

----------------------------------------------------------------------------
(* IEEE-754 double arithmetic of line 19:                                  *)
(*     int((len(latency_samples) / 100) * target_latency_percentile)       *)
(* `/` rounds n/100 to the nearest double q, `*` rounds q*r to the nearest *)
(* double p, int() truncates p toward zero.  With n*2^s/100 scaled into    *)
(* [2^52, 2^53), q = M/2^s where M is the integer nearest to n*2^s/100, so *)
(* q = n/100 + rho/(100*2^s) with rho = 100*M - n*2^s, an integer of       *)
(* magnitude below 50 that depends on n*2^s modulo 100 only.               *)

RECURSIVE Pow2(_)
Pow2(e) == IF e <= 0 THEN 1 ELSE 2 * Pow2(e - 1)

RECURSIVE Pow2Mod100(_)
Pow2Mod100(e) == IF e <= 0 THEN 1 ELSE (2 * Pow2Mod100(e - 1)) % 100

\* the binary exponent a of n/100: 2^a <= n/100 < 2^(a+1), for n >= 1
QuotientExponent(n) ==
    CHOOSE a \in -7..20 :
        IF a >= 0
        THEN 100 * Pow2(a) <= n /\ n < 200 * Pow2(a)
        ELSE 100 <= n * Pow2(0 - a) /\ n * Pow2(0 - a) < 200

\* rho: 100 * (mantissa of the double n/100) - n * 2^s, s = 52 - a.
\* n * 2^s is a multiple of 4, so it is never halfway (50 modulo 100).
QuotientResidual(n) ==
    LET s == 52 - QuotientExponent(n)
        m == (n * Pow2Mod100(s)) % 100
    IN  IF m < 50 THEN 0 - m ELSE 100 - m

\* the exponent e of an integer k >= 1: 2^(e-1) < k <= 2^e
CeilLog2(k) == CHOOSE e \in 0..30 : Pow2(e) >= k /\ (e = 0 \/ Pow2(e - 1) < k)

\* int((n / 100) * r) for n >= 0, r >= 0; a zero factor gives exactly 0.
\* When 100 does not divide n*r the exact product is at least 1/100 away from
\* an integer and the rounding errors (below 2^-40) cannot cross it.  When
\* n*r = 100*k the double product is k + rho*r/(100*2^s): it rounds to a
\* double below k exactly when rho < 0 and |rho|*r/(100*2^s) exceeds half the
\* spacing 2^(e-53) of the doubles below k (a tie rounds to k, whose mantissa
\* is even), and then int() gives k - 1.
TruncatedProduct(n, r) ==
    LET exact == n * r
        k     == exact \div 100
    IN  IF exact = 0 \/ exact % 100 # 0 THEN k
        ELSE LET rho == QuotientResidual(n)
                 x   == CeilLog2(k) - QuotientExponent(n) - 2
             IN  IF rho < 0 /\ (0 - rho) * r * Pow2(0 - x) > 100 * Pow2(x)
                 THEN k - 1
                 ELSE k

\* line 19, for any integer rank: int() truncates toward zero
target_value(n, r) ==
    IF r >= 0 THEN TruncatedProduct(n, r) ELSE 0 - TruncatedProduct(n, 0 - r)

----------------------------------------------------------------------------
(* calculate_percentile (middleware.py:15-21) *)

\* variant: list.sort() semantics, the argument itself is reordered
ArgumentSortedInPlace(latency_samples) == sorted(latency_samples)

\* sorted(latency_samples) builds a new list: the argument keeps its order
ArgumentAfterSorted(latency_samples) == latency_samples

\* variant: no guard for the empty sequence
calculate_percentile_unguarded(latency_samples, target_latency_percentile) ==
    LET sorted_samples == sorted(latency_samples)
        index == Max(target_value(Len(latency_samples),
                                  target_latency_percentile) - 1, 0)
    IN  IF index >= Len(sorted_samples) THEN IndexError
        ELSE Some(sorted_samples[index + 1])

calculate_percentile(latency_samples, target_latency_percentile) ==
    IF Len(latency_samples) = 0 THEN None
    ELSE LET sorted_samples == sorted(latency_samples)
             index == Max(target_value(Len(latency_samples),
                                       target_latency_percentile) - 1, 0)
         IN  IF index >= Len(sorted_samples) THEN IndexError
             ELSE Some(sorted_samples[index + 1])

----------------------------------------------------------------------------
(* State after import of app.middleware: an empty deque, no request yet *)

Init ==
    /\ rolling_latency = << >>
    /\ pc = [r \in Requests |-> "idle"]
    /\ start_time = [r \in Requests |-> None]
    /\ process_time = [r \in Requests |-> None]
    /\ x_process_time = [r \in Requests |-> ""]
    /\ clock = 0
    /\ returned = NoCall
    /\ owners = << >>
    /\ doneOrder = << >>
    /\ overtaken = {}

----------------------------------------------------------------------------
(* add_process_time_header (middleware.py:7-13) *)

\* time passes: perf_counter is monotonic
Tick ==
    /\ clock < MaxClock
    /\ clock' = clock + 1
    /\ UNCHANGED <<rolling_latency, pc, start_time, process_time,
                   x_process_time, returned, owners, doneOrder, overtaken>>

\* line 8, then the coroutine suspends in `await call_next(request)`
Start(r) ==
    /\ pc[r] = "idle"
    /\ pc' = [pc EXCEPT ![r] = "awaiting"]
    /\ start_time' = [start_time EXCEPT ![r] = Some(clock)]
    /\ UNCHANGED <<rolling_latency, process_time, x_process_time, clock,
                   returned, owners, doneOrder, overtaken>>

\* the requests still suspended in call_next that started before r did
StartedBefore(r) ==
    {q \in Requests : pc[q] = "awaiting" /\ start_time[q].v < start_time[r].v}

\* call_next returns a response: lines 10-13 run without suspension
CallNextReturns(r) ==
    /\ pc[r] = "awaiting"
    /\ LET elapsed == clock - start_time[r].v
       IN  /\ process_time' = [process_time EXCEPT ![r] = Some(elapsed)]
           /\ rolling_latency' = DequeAppend(rolling_latency, elapsed)
           /\ x_process_time' = [x_process_time EXCEPT ![r] = ToString(elapsed)]
    /\ owners' = DequeAppend(owners, r)
    /\ doneOrder' = Append(doneOrder, r)
    /\ overtaken' = overtaken \cup {<<r, q>> : q \in StartedBefore(r)}
    /\ pc' = [pc EXCEPT ![r] = "returned"]
    /\ start_time' = [start_time EXCEPT ![r] = None]
    /\ UNCHANGED <<clock, returned>>

\* call_next raises: the exception leaves the coroutine at line 9, which has
\* no try/finally, so lines 10-13 do not run
CallNextRaises(r) ==
    /\ pc[r] = "awaiting"
    /\ pc' = [pc EXCEPT ![r] = "raised"]
    /\ doneOrder' = Append(doneOrder, r)
    /\ start_time' = [start_time EXCEPT ![r] = None]
    /\ UNCHANGED <<rolling_latency, process_time, x_process_time,
                   clock, returned, owners, overtaken>>

----------------------------------------------------------------------------
(* A caller evaluates calculate_percentile(rolling_latency, rank) *)

Query(rank) ==
    /\ returned' = [rank |-> rank,
                    result |-> calculate_percentile(rolling_latency, rank)]
    /\ rolling_latency' = ArgumentAfterSorted(rolling_latency)
    /\ UNCHANGED <<pc, start_time, process_time, x_process_time, clock,
                   owners, doneOrder, overtaken>>

\* ranks queried while requests are in flight
SpotRanks == {0, 100}

Next ==
    \/ Tick
    \/ \E r \in Requests : Start(r)
    \/ \E r \in Requests : CallNextReturns(r)
    \/ \E r \in Requests : CallNextRaises(r)
    \/ \E rank \in SpotRanks : Query(rank)

Spec == Init /\ [][Next]_vars

----------------------------------------------------------------------------
(* calculate_percentile as a function of its arguments: the deque holds any *)
(* of a family of sample sequences and every rank is queried                *)

RECURSIVE SeqsUpTo(_)
SeqsUpTo(n) ==
    IF n = 0 THEN {<< >>}
    ELSE LET shorter == SeqsUpTo(n - 1)
         IN  shorter \cup {Append(s, x) : s \in shorter, x \in 0..MaxSample}

Ascending(n) == [i \in 1..n |-> i]
Descending(n) == [i \in 1..n |-> n + 1 - i]

PctInputs ==
    SeqsUpTo(MaxShort)
        \cup {Ascending(n) : n \in 1..MaxCount}
        \cup {Descending(n) : n \in 1..MaxCount}

AllRanks == (0 - RankSlack)..(100 + RankSlack)

InitPct ==
    /\ rolling_latency \in PctInputs
    /\ pc = [r \in Requests |-> "idle"]
    /\ start_time = [r \in Requests |-> None]
    /\ process_time = [r \in Requests |-> None]
    /\ x_process_time = [r \in Requests |-> ""]
    /\ clock = 0
    /\ returned = NoCall
    /\ owners = [i \in 1..Len(rolling_latency) |-> 0]
    /\ doneOrder = << >>
    /\ overtaken = {}

\* one call per input: the function has no state of its own
NextPct == \E rank \in AllRanks : returned = NoCall /\ Query(rank)

SpecPct == InitPct /\ [][NextPct]_vars

----------------------------------------------------------------------------
(* Properties *)

Range(s) == {s[i] : i \in DOMAIN s}

LastN(s, n) == SubSeq(s, Len(s) - Min(n, Len(s)) + 1, Len(s))

BagOf(s) == [x \in Range(s) |-> Cardinality({i \in DOMAIN s : s[i] = x})]

Pos(s, x) == CHOOSE i \in DOMAIN s : s[i] = x

IsReturned(r) == pc[r] = "returned"

\* the samples handed to append, in the order call_next returned
History ==
    LET recorded == SelectSeq(doneOrder, IsReturned)
    IN  [i \in 1..Len(recorded) |-> process_time[recorded[i]].v]

SeqMax(s) == CHOOSE x \in Range(s) : \A y \in Range(s) : y <= x
SeqMin(s) == CHOOSE x \in Range(s) : \A y \in Range(s) : x <= y

Called == returned # NoCall
ValidRank == returned.rank \in 0..100

\* C1: a request whose call_next raises still appends one sample to the
\* window (count + 1 when not full, the newest sample being that request's)
\* while the failure propagates.
C1_RecordsOnFailure ==
    [][\A r \in Requests :
          (pc[r] = "awaiting" /\ pc'[r] = "raised") =>
              /\ Len(rolling_latency') = Min(Len(rolling_latency) + 1, maxlen)
              /\ Len(owners') >= 1
              /\ owners'[Len(owners')] = r]_vars

\* C2: after k records the window is exactly the last min(k, maxlen) recorded
\* samples, in insertion order; beyond maxlen each record evicts the oldest.
C2_FifoWindow ==
    /\ Len(rolling_latency) = Min(Len(History), maxlen)
    /\ rolling_latency = LastN(History, maxlen)

\* more records than maxlen, and the evicted oldest sample is visibly gone
C2_Witness ==
    /\ Len(History) > maxlen
    /\ History[1] \notin Range(rolling_latency)
    /\ rolling_latency = LastN(History, maxlen)

\* C3: in every reachable state the window holds at most maxlen samples.
C3_SizeBounded == Len(rolling_latency) <= maxlen

\* the window is full after more than maxlen requests recorded
C3_Witness ==
    /\ Len(rolling_latency) = maxlen
    /\ Cardinality({r \in Requests : IsReturned(r)}) > maxlen

\* C4: when all requests were in flight and each has recorded its sample, the
\* count is min(NumRequests, maxlen), the window's multiset is that of the
\* capacity-truncated tail of the recorded samples, and no request's sample
\* occurs twice.
C4_ConcurrentRecords ==
    (\A r \in Requests : IsReturned(r)) =>
        /\ Len(rolling_latency) = Min(NumRequests, maxlen)
        /\ BagOf(rolling_latency) = BagOf(LastN(History, maxlen))
        /\ Len(History) = NumRequests
        /\ Cardinality(Range(owners)) = Len(owners)

\* every request started before the first tick and returned after the last:
\* all of them were in flight at the same time
C4_Witness ==
    /\ \A r \in Requests : IsReturned(r) /\ process_time[r].v = MaxClock
    /\ Len(rolling_latency) = Min(NumRequests, maxlen)

\* C5: for a non-empty window and a rank in [0,100] the result is the element
\* at index max(floor(count * rank / 100) - 1, 0) of the sorted samples.
C5_NearestRankIndex ==
    (Called /\ ValidRank /\ Len(rolling_latency) > 0) =>
        LET count == Len(rolling_latency)
            index == Max((count * returned.rank) \div 100 - 1, 0)
        IN  returned.result = Some(sorted(rolling_latency)[index + 1])

\* C6: a rank outside [0,100] is rejected with a validation error: no sample
\* value, no None, no IndexError.
C6_RejectsInvalidRank ==
    (Called /\ ~ValidRank) => returned.result.kind = "ValidationError"

\* C7: on a non-empty window rank 100 gives the maximum, rank 0 the minimum,
\* and a single-sample window gives its sample for every rank in [0,100].
C7_ExtremeRanks ==
    (Called /\ Len(rolling_latency) > 0) =>
        /\ returned.rank = 100 =>
               returned.result = Some(SeqMax(rolling_latency))
        /\ returned.rank = 0 =>
               returned.result = Some(SeqMin(rolling_latency))
        /\ (Len(rolling_latency) = 1 /\ ValidRank) =>
               returned.result = Some(rolling_latency[1])

\* C8: a percentile query on an empty window returns None, whatever the rank.
C8_EmptyWindowIsNone ==
    (Called /\ Len(rolling_latency) = 0) => returned.result = None

\* an out-of-range rank was queried on the empty window
C8_Witness ==
    /\ Called
    /\ rolling_latency = << >>
    /\ returned.rank > 100
    /\ returned.result = None

\* C9: samples sit in the window in the order in which their requests'
\* call_next finished, whatever the order in which the requests started.
C9_CompletionOrder ==
    /\ Len(owners) = Len(rolling_latency)
    /\ \A i \in DOMAIN owners :
           rolling_latency[i] = process_time[owners[i]].v
    /\ \A i, j \in DOMAIN owners :
           i < j => Pos(doneOrder, owners[i]) < Pos(doneOrder, owners[j])

\* two retained samples whose requests finished in the opposite order of
\* their starts
C9_Witness ==
    \E i, j \in DOMAIN owners : i < j /\ <<owners[i], owners[j]>> \in overtaken

\* C10: a percentile query leaves the window as it was (the step that changes
\* neither pc nor clock is the query), and a step of a request or of the clock
\* leaves the result already returned as it was.
C10_QueryLeavesWindow ==
    [][/\ (pc' = pc /\ clock' = clock) => rolling_latency' = rolling_latency
       /\ (pc' # pc \/ clock' # clock) => returned' = returned]_vars

\* a query answered from a window that is not in sorted order
C10_Witness ==
    /\ Called
    /\ Len(rolling_latency) >= 2
    /\ rolling_latency # sorted(rolling_latency)
    /\ returned.result = calculate_percentile(rolling_latency, returned.rank)

====
